---- MODULE Spec2Model ----
(***************************************************************************)
(* Time-windowed key management (package kms) over a shared blob store     *)
(* (package storage).  Byte strings are sequences of 0..255; instants are  *)
(* whole seconds since Go's zero time (0001-01-01 00:00:00 UTC), which is  *)
(* the origin time.Time.Truncate rounds against.                           *)
(***************************************************************************)
EXTENDS Integers, Sequences, FiniteSets, TLC

VARIABLES
    kms,      \* the Kms configuration NewKms built (shared by every process)
    storage,  \* which Storage implementation backs the Kms: "Fs" or "Gcs"
    clock,    \* wall clock, seconds since the zero time
    store,    \* the blob store: storage path -> bytes, for the paths that exist
    keys,     \* keys[p]: process p's sync.Map cache, key id -> key bytes
    pc,       \* pc[t]: where task t stands in its current call
    call,     \* call[t]: the call task t runs: op, data, cap, now, provenance
    loc,      \* loc[t]: locals of the call: id, key, createIfMissing, written
    res,      \* res[t]: result of task t's last finished call
    ncalls,   \* number of calls started so far
    nrand,    \* number of keys drawn from the random source so far
    wins,     \* history: key id -> number of WriteIfMissing calls that returned true
    expiredAt \* history: key id -> earliest clock at which it was rejected as expired

vars == <<kms, storage, clock, store, keys, pc, call, loc, res, ncalls, nrand, wins, expiredAt>>

----------------------------------------------------------------------------
(* Bounds of the model. *)

NumProcs == 2       \* independent Kms instances (processes) sharing the store
NumTasks == 2       \* concurrent goroutines issuing calls
MaxCalls == 3       \* calls started in one behaviour
MaxLen == 1         \* longest payload handed to Encrypt / Hash
NumNonces == 1      \* distinct outcomes of rand.Read for the nonce
MaxWindows == 2     \* rotation windows the clock walks through after the first

Procs == 1..NumProcs
Tasks == 1..NumTasks

----------------------------------------------------------------------------
(* Program constants. *)

Minute == 60
Hour == 60 * Minute
Day == 24 * Hour
KeySize == 96
EncKeySize == 32
MacSize == 64
NonceSize == 12
TagSize == 16
ReadCap == 512
DefaultKeyLength == 13

Byte == 0..255
Zeros(n) == [i \in 1..n |-> 0]
Fill(n, b) == [i \in 1..n |-> b]
Min(a, b) == IF a <= b THEN a ELSE b

----------------------------------------------------------------------------
(* time.Time.Format / time.Parse under the layout "20060102_1504":         *)
(* 4-digit year, 2-digit month, 2-digit day, '_', 2-digit hour, 2-digit    *)
(* minute; seconds are not part of the layout.                             *)

Underscore == 95
Digit(n) == 48 + n
IsDigit(b) == b >= 48 /\ b <= 57
Dig2(n) == <<Digit((n \div 10) % 10), Digit(n % 10)>>
Dig4(n) == <<Digit((n \div 1000) % 10), Digit((n \div 100) % 10)>> \o Dig2(n % 100)
Num2(s, i) == (s[i] - 48) * 10 + (s[i + 1] - 48)
Num4(s, i) == Num2(s, i) * 100 + Num2(s, i + 2)

IsLeap(y) == y % 4 = 0 /\ (y % 100 # 0 \/ y % 400 = 0)
daysIn(m, y) ==
    IF m = 2 THEN (IF IsLeap(y) THEN 29 ELSE 28)
    ELSE IF m \in {4, 6, 9, 11} THEN 30 ELSE 31

\* Days from 0001-01-01 to the civil date y-m-d (proleptic Gregorian).
DaysFromCivil(y, m, d) ==
    LET yy == IF m <= 2 THEN y - 1 ELSE y
        era == yy \div 400
        yoe == yy - era * 400
        mp == IF m > 2 THEN m - 3 ELSE m + 9
        doy == (153 * mp + 2) \div 5 + d - 1
        doe == yoe * 365 + yoe \div 4 - yoe \div 100 + doy
    IN era * 146097 + doe - 306

\* The civil date of a day count from 0001-01-01.
CivilFromDays(days) ==
    LET z == days + 306
        era == z \div 146097
        doe == z % 146097
        yoe == (doe - doe \div 1460 + doe \div 36524 - doe \div 146096) \div 365
        doy == doe - (365 * yoe + yoe \div 4 - yoe \div 100)
        mp == (5 * doy + 2) \div 153
        d == doy - (153 * mp + 2) \div 5 + 1
        m == IF mp < 10 THEN mp + 3 ELSE mp - 9
        y == yoe + era * 400 + (IF m <= 2 THEN 1 ELSE 0)
    IN [y |-> y, m |-> m, d |-> d]

\* t.Format("20060102_1504") for an instant t (UTC) in years 0..9999.
Format(t) ==
    LET mins == t \div Minute
        c == CivilFromDays(mins \div (24 * 60))
        hh == (mins % (24 * 60)) \div 60
        mm == mins % 60
    IN Dig4(c.y) \o Dig2(c.m) \o Dig2(c.d) \o <<Underscore>> \o Dig2(hh) \o Dig2(mm)

\* time.Parse("20060102_1504", s): [ok |-> FALSE] on a parse error, else the
\* instant as whole days since the zero time and seconds into the day (a
\* parsed year may lie thousands of years from the clock).
Parse(s) ==
    IF Len(s) # DefaultKeyLength
        \/ \E i \in {1, 2, 3, 4, 5, 6, 7, 8, 10, 11, 12, 13} : ~IsDigit(s[i])
        \/ s[9] # Underscore
    THEN [ok |-> FALSE, days |-> 0, secs |-> 0]
    ELSE LET y == Num4(s, 1)
             m == Num2(s, 5)
             d == Num2(s, 7)
             hh == Num2(s, 10)
             mm == Num2(s, 12)
         IN IF m < 1 \/ m > 12 \/ d < 1 \/ d > daysIn(m, y) \/ hh >= 24 \/ mm >= 60
            THEN [ok |-> FALSE, days |-> 0, secs |-> 0]
            ELSE [ok |-> TRUE, days |-> DaysFromCivil(y, m, d), secs |-> (hh * 60 + mm) * Minute]

\* The instant of a clock reading, in the same form.
Instant(t) == [days |-> t \div Day, secs |-> t % Day]
\* t.Add(d)
Add(r, d) == [days |-> r.days + (r.secs + d) \div Day, secs |-> (r.secs + d) % Day]
\* t.Before(u), t.After(u)
Before(r, u) == r.days < u.days \/ (r.days = u.days /\ r.secs < u.secs)
After(r, u) == Before(u, r)
\* The parsed instant of a key id in seconds, for ids near the clock.
ParseTime(s) == Parse(s).days * Day + Parse(s).secs

\* time.Time.Truncate(d): round down to a multiple of d since the zero time.
Truncate(t, d) == IF d <= 0 THEN t ELSE t - (t % d)

----------------------------------------------------------------------------
(* NewKms and the key id functions. *)

\* Opts values handed to NewKms (durations in seconds; 0 is the unset field).
EmptyOpts == [RotationFreq |-> 0, MaxAge |-> 0]
OptsChoices ==
    { EmptyOpts,
      [RotationFreq |-> 5 * Minute, MaxAge |-> 10 * Minute],
      [RotationFreq |-> 10 * Minute, MaxAge |-> 11 * Minute],
      [RotationFreq |-> 5 * Minute + 30, MaxAge |-> 11 * Minute],
      [RotationFreq |-> 10 * Minute, MaxAge |-> 5 * Minute] }

NewKms(opts) ==
    [rotationFreq |-> IF opts.RotationFreq < 5 * Minute THEN 30 * Day ELSE opts.RotationFreq,
     maxAge |-> IF opts.MaxAge < 5 * Minute THEN 90 * Day ELSE opts.MaxAge,
     keyLength |-> DefaultKeyLength]

\* The key id of the first window, whatever the clock says.
currentKeyIdFrozen(k, now) == Format(Truncate(k.rotationFreq, k.rotationFreq))

\* The clock formatted without truncation to the rotation window.
currentKeyIdUntruncated(k, now) == Format(now)

\* The window start formatted with its minute not padded to two digits.
currentKeyIdUnpaddedMinute(k, now) ==
    LET id == Format(Truncate(now, k.rotationFreq))
    IN SubSeq(id, 1, 11) \o (IF id[12] = Digit(0) THEN <<>> ELSE <<id[12]>>) \o <<id[13]>>

\* The window start formatted day first ("02012006_1504").
currentKeyIdDayFirst(k, now) ==
    LET id == Format(Truncate(now, k.rotationFreq))
    IN SubSeq(id, 7, 8) \o SubSeq(id, 5, 6) \o SubSeq(id, 1, 4) \o SubSeq(id, 9, 13)

currentKeyId(k, now) == Format(Truncate(now, k.rotationFreq))

\* validateKeyId rejecting as in the future an id of the very instant now.
validateKeyIdFutureInclusive(k, id, now) ==
    LET r == Parse(id)
    IN IF ~r.ok THEN "MalformedId"
       ELSE IF ~Before(r, Instant(now)) THEN "FutureId"
       ELSE IF Before(Add(r, k.maxAge), Instant(now)) THEN "Expired"
       ELSE "nil"

\* validateKeyId granting one more rotation period before expiry.
validateKeyIdWithGrace(k, id, now) ==
    LET r == Parse(id)
    IN IF ~r.ok THEN "MalformedId"
       ELSE IF After(r, Instant(now)) THEN "FutureId"
       ELSE IF Before(Add(r, k.maxAge + k.rotationFreq), Instant(now)) THEN "Expired"
       ELSE "nil"

\* validateKeyId expiring an id already at t + maxAge.
validateKeyIdStrict(k, id, now) ==
    LET r == Parse(id)
    IN IF ~r.ok THEN "MalformedId"
       ELSE IF After(r, Instant(now)) THEN "FutureId"
       ELSE IF ~After(Add(r, k.maxAge), Instant(now)) THEN "Expired"
       ELSE "nil"

\* validateKeyId counting maxAge from the start of the window before.
validateKeyIdFromWindowBefore(k, id, now) ==
    LET r == Parse(id)
    IN IF ~r.ok THEN "MalformedId"
       ELSE IF After(r, Instant(now)) THEN "FutureId"
       ELSE IF Before(Add(r, k.maxAge), Add(Instant(now), k.rotationFreq)) THEN "Expired"
       ELSE "nil"

validateKeyId(k, id, now) ==
    LET r == Parse(id)
    IN IF ~r.ok THEN "MalformedId"
       ELSE IF After(r, Instant(now)) THEN "FutureId"
       ELSE IF Before(Add(r, k.maxAge), Instant(now)) THEN "Expired"
       ELSE "nil"

\* rand.Read of 96 bytes; seed stands for the outcome of the random source,
\* which never yields the same key material twice.
generateKey(seed) == Fill(KeySize, seed)

\* path.Join(k.keysFolder, keyId), with the default folder.
storagePath(id) == [folder |-> ".keys", name |-> id]

----------------------------------------------------------------------------
(* Results of a call: a returned value, a returned error, or a panic. *)

Ok(v) == [kind |-> "ok", val |-> v, err |-> "nil"]
Err(e) == [kind |-> "err", val |-> <<>>, err |-> e]
Panic(e) == [kind |-> "panic", val |-> <<>>, err |-> e]
NoRes == [kind |-> "none", val |-> <<>>, err |-> "nil"]

\* Go's s[lo:hi] on a slice with bytes b and capacity cap >= Len(b): legal when
\* lo <= hi <= cap; bytes past Len(b) are the zeroed rest of the backing array.
CanSlice(b, cap, lo, hi) == 0 <= lo /\ lo <= hi /\ hi <= cap
Slice(b, cap, lo, hi) == [i \in 1..(hi - lo) |-> IF lo + i <= Len(b) THEN b[lo + i] ELSE 0]
\* Go's s[lo:]: legal when lo <= len(s).
CanSliceFrom(b, lo) == lo <= Len(b)
SliceFrom(b, lo) == [i \in 1..(Len(b) - lo) |-> b[lo + i]]

----------------------------------------------------------------------------
(* The cryptographic primitives, as ideal functions on the bounded payloads: *)
(* AES-256-GCM (a keyed, nonce-dependent bijection on the plaintext plus a   *)
(* 16-byte tag that no other key, nonce or ciphertext yields) and            *)
(* HMAC-SHA512 (a 64-byte value that no other key or payload yields).        *)

KeyStream(key, nonce, i) ==
    (key[((i - 1) % Len(key)) + 1] + nonce[((i - 1) % Len(nonce)) + 1] + i) % 256

GcmTag(key, nonce, ct) ==
    [i \in 1..TagSize |->
        IF i = 1 THEN (Len(ct) + key[1] + nonce[1]) % 256
        ELSE IF i - 1 <= Len(ct) THEN (ct[i - 1] + key[i] + nonce[((i - 1) % NonceSize) + 1]) % 256
        ELSE (key[i] + nonce[((i - 1) % NonceSize) + 1]) % 256]

\* aead.Seal(nil, nonce, data, nil): ciphertext followed by the tag.
Seal(key, nonce, data) ==
    LET ct == [i \in 1..Len(data) |-> (data[i] + KeyStream(key, nonce, i)) % 256]
    IN ct \o GcmTag(key, nonce, ct)

\* aead.Open(nil, nonce, ciphertext, nil).
Open(key, nonce, c) ==
    IF Len(c) < TagSize THEN [ok |-> FALSE, pt |-> <<>>]
    ELSE LET ct == SubSeq(c, 1, Len(c) - TagSize)
             tag == SubSeq(c, Len(c) - TagSize + 1, Len(c))
         IN IF tag # GcmTag(key, nonce, ct) THEN [ok |-> FALSE, pt |-> <<>>]
            ELSE [ok |-> TRUE,
                  pt |-> [i \in 1..Len(ct) |-> (ct[i] - KeyStream(key, nonce, i)) % 256]]

\* hmac.New(sha512.New, key); mac.Write(data); mac.Sum(nil).
Hmac(key, data) ==
    [i \in 1..MacSize |->
        IF i = 1 THEN (Len(data) + key[1]) % 256
        ELSE IF i - 1 <= Len(data) THEN (data[i - 1] + key[i]) % 256
        ELSE key[i]]

\* rand.Read of the nonce; n stands for the outcome of the random source.
Nonce(n) == Fill(NonceSize, 100 + n)

----------------------------------------------------------------------------
(* The four operations, from the point where key() has returned key. *)

\* key[:32].  A key shorter than 32 bytes can only have come from a store
\* Read, whose buffer has capacity >= ReadCap, so the reslice succeeds and
\* yields the zeroed bytes behind the data.
encryptionKey(key) ==
    Slice(key, IF Len(key) >= EncKeySize THEN Len(key) ELSE ReadCap, 0, EncKeySize)

\* key[32:] is legal only when 32 <= len(key).
CanHashKey(key) == CanSliceFrom(key, EncKeySize)
hashKey(key) == SliceFrom(key, EncKeySize)

EncryptWith(id, key, nonce, data) ==
    Ok(id \o nonce \o Seal(encryptionKey(key), nonce, data))

\* Hash with the HMAC appended after the payload instead of before it.
HashWithMacLast(id, key, data) ==
    IF ~CanHashKey(key) THEN Panic("slice bounds out of range")
    ELSE Ok(id \o data \o Hmac(hashKey(key), data))

HashWith(id, key, data) ==
    IF ~CanHashKey(key) THEN Panic("slice bounds out of range")
    ELSE Ok(id \o Hmac(hashKey(key), data) \o data)

\* Decrypt reading the nonce one byte too far into the input.
DecryptWithShiftedNonce(k, key, data, cap) ==
    LET kl == k.keyLength
    IN IF ~CanSlice(data, cap, kl + 1, kl + 1 + NonceSize) \/ ~CanSliceFrom(data, kl + NonceSize)
       THEN Panic("slice bounds out of range")
       ELSE LET o == Open(encryptionKey(key), Slice(data, cap, kl + 1, kl + 1 + NonceSize),
                          SliceFrom(data, kl + NonceSize))
            IN IF o.ok THEN Ok(o.pt) ELSE Err("AuthenticationFailure")

DecryptWith(k, key, data, cap) ==
    LET kl == k.keyLength
    IN IF ~CanSlice(data, cap, kl, kl + NonceSize) \/ ~CanSliceFrom(data, kl + NonceSize)
       THEN Panic("slice bounds out of range")
       ELSE LET o == Open(encryptionKey(key), Slice(data, cap, kl, kl + NonceSize),
                          SliceFrom(data, kl + NonceSize))
            IN IF o.ok THEN Ok(o.pt) ELSE Err("AuthenticationFailure")

\* Unhash comparing only the first half of the HMAC.
UnhashWithHalfMac(k, key, data, cap) ==
    LET macEnd == k.keyLength + MacSize
        half == k.keyLength + (MacSize \div 2)
    IN IF ~CanHashKey(key) THEN Panic("slice bounds out of range")
       ELSE IF Slice(data, cap, k.keyLength, half)
               # SubSeq(Hmac(hashKey(key), SliceFrom(data, macEnd)), 1, MacSize \div 2)
       THEN Err("AuthenticationFailure")
       ELSE Ok(SliceFrom(data, macEnd))

\* The slices of Unhash are taken before the key is fetched (see CallUnhash).
UnhashWith(k, key, data, cap) ==
    LET macEnd == k.keyLength + MacSize
    IN IF ~CanHashKey(key) THEN Panic("slice bounds out of range")
       ELSE IF Slice(data, cap, k.keyLength, macEnd) # Hmac(hashKey(key), SliceFrom(data, macEnd))
       THEN Err("AuthenticationFailure")
       ELSE Ok(SliceFrom(data, macEnd))

OpResult(k, c, id, key, nonce) ==
    CASE c.op = "Encrypt" -> EncryptWith(id, key, nonce, c.data)
      [] c.op = "Hash" -> HashWith(id, key, c.data)
      [] c.op = "Decrypt" -> DecryptWith(k, key, c.data, c.cap)
      [] c.op = "Unhash" -> UnhashWith(k, key, c.data, c.cap)

\* What the operation does with an error returned by key(): Encrypt and Hash
\* panic, Decrypt and Unhash return it.
KeyError(c, e) == IF c.op \in {"Encrypt", "Hash"} THEN Panic(e) ELSE Err(e)

----------------------------------------------------------------------------
(* Inputs. *)

PayloadBytes == {65}
RECURSIVE SeqsUpTo(_)
SeqsUpTo(n) ==
    IF n = 0 THEN {<<>>}
    ELSE LET shorter == SeqsUpTo(n - 1)
         IN shorter \cup {Append(s, b) : s \in {x \in shorter : Len(x) = n - 1}, b \in PayloadBytes}
Payloads == SeqsUpTo(MaxLen)

\* One bit of byte b flipped.
FlipBit(b, bit) ==
    LET w == 2 ^ bit IN IF (b \div w) % 2 = 1 THEN b - w ELSE b + w

\* The lengths at which a wire payload is cut short.
CutLens(k) ==
    {0, k.keyLength - 1, k.keyLength, k.keyLength + NonceSize - 1,
     k.keyLength + NonceSize, k.keyLength + MacSize - 1}

\* The inputs derived from a wire payload val: itself, a prefix of it (in a
\* buffer of exactly that size, or in a zeroed read buffer), or a copy with
\* one bit flipped.
Variants(k, val, hows) ==
    (IF "intact" \in hows
     THEN {[data |-> val, cap |-> Len(val), how |-> "intact", at |-> 0]} ELSE {})
    \cup
    (IF "cut" \in hows
     THEN {[data |-> SubSeq(val, 1, n), cap |-> IF big THEN ReadCap ELSE n,
            how |-> "cut", at |-> n] :
              n \in {m \in CutLens(k) : m < Len(val)}, big \in BOOLEAN} ELSE {})
    \cup
    (IF "flip" \in hows
     THEN {[data |-> [val EXCEPT ![i] = FlipBit(val[i], bit)], cap |-> Len(val),
            how |-> "flip", at |-> i] : i \in 1..Len(val), bit \in 0..7} ELSE {})

NoCall == [op |-> "none", proc |-> 1, data |-> <<>>, cap |-> 0, now |-> 0,
           from |-> [op |-> "none", p |-> <<>>, now |-> 0, proc |-> 1, how |-> "none", at |-> 0]]
NoLoc == [id |-> <<>>, create |-> FALSE, key |-> <<>>]

\* The instants the clock visits: the first and the last second of each
\* rotation window, and the two instants around the expiry of the first
\* window's key id.
WindowStart(k, j) == (j + 1) * k.rotationFreq
ClockPoints(k) ==
    UNION {{WindowStart(k, j), WindowStart(k, j) + k.rotationFreq - 1} :
              j \in 0..(MaxWindows - 1)}
    \cup {ParseTime(currentKeyId(k, WindowStart(k, 0))) + k.maxAge + d : d \in {0, 1}}

----------------------------------------------------------------------------
(* The state machine.  A call is split at its accesses to the shared store   *)
(* and to the process's cache; what lies between two accesses is local.      *)

InitWith(optsChoices, storages) ==
    /\ kms \in {NewKms(o) : o \in optsChoices}
    /\ storage \in storages
    /\ clock = WindowStart(kms, 0)
    /\ store = <<>>
    /\ keys = [p \in Procs |-> <<>>]
    /\ pc = [t \in Tasks |-> "idle"]
    /\ call = [t \in Tasks |-> NoCall]
    /\ loc = [t \in Tasks |-> NoLoc]
    /\ res = [t \in Tasks |-> NoRes]
    /\ ncalls = 0
    /\ nrand = 0
    /\ wins = <<>>
    /\ expiredAt = <<>>

Quiet == \A u \in Tasks : pc[u] \in {"idle", "done"}

\* f with x mapped to v, whether or not x is in its domain.
Put(f, x, v) == [y \in DOMAIN f \cup {x} |-> IF y = x THEN v ELSE f[y]]

\* Task t's call ends with result r.
Finish(t, r) ==
    /\ pc' = [pc EXCEPT ![t] = "done"]
    /\ res' = [res EXCEPT ![t] = r]
    /\ expiredAt' =
           IF r.kind = "err" /\ r.err = "Expired"
           THEN Put(expiredAt, loc[t].id,
                    IF loc[t].id \in DOMAIN expiredAt
                    THEN Min(expiredAt[loc[t].id], call[t].now) ELSE call[t].now)
           ELSE expiredAt

\* key() has returned key to task t: the rest of the operation is local.
Complete(t, key) ==
    /\ loc' = [loc EXCEPT ![t].key = key]
    /\ \E n \in 1..NumNonces : Finish(t, OpResult(kms, call[t], loc[t].id, key, Nonce(n)))

\* Tasks are interchangeable, and so are processes that hold nothing: a call
\* takes the first unused task, and the first unused process when it takes one.
\* Calls made one after another (seq) take the tasks in turn.
CanStart(t, seq) ==
    /\ pc[t] \in {"idle", "done"}
    /\ \A u \in Tasks : u < t => pc[u] # "idle"
    /\ ncalls < MaxCalls
    /\ seq => Quiet /\ t = (ncalls % NumTasks) + 1

InUse(p) == keys[p] # <<>> \/ \E u \in Tasks : pc[u] # "idle" /\ call[u].proc = p
CallProcs == {p \in Procs : \A q \in Procs : q < p => InUse(q)}

Begin(t, c, l) ==
    /\ call' = [call EXCEPT ![t] = c]
    /\ loc' = [loc EXCEPT ![t] = l]
    /\ pc' = [pc EXCEPT ![t] = "key"]
    /\ ncalls' = ncalls + 1
    /\ UNCHANGED <<kms, storage, clock, store, keys, res, nrand, wins, expiredAt>>

\* Encrypt / Hash: keyId := k.currentKeyId(ctx), then key(ctx, keyId, true).
CallCreate(t, op, seq) ==
    /\ CanStart(t, seq)
    /\ \E p \in CallProcs, d \in Payloads :
          Begin(t, [NoCall EXCEPT !.op = op, !.proc = p, !.data = d, !.cap = Len(d), !.now = clock],
                [id |-> currentKeyId(kms, clock), create |-> TRUE, key |-> <<>>])

CallEncrypt(t, seq) == CallCreate(t, "Encrypt", seq)
CallHash(t, seq) == CallCreate(t, "Hash", seq)

\* The finished calls whose output may be fed back as input.
Produced(op) == {u \in Tasks : pc[u] = "done" /\ call[u].op = op /\ res[u].kind = "ok"}

\* Decrypt / Unhash on an input derived from an earlier output.  The slices the
\* operation takes before it fetches the key panic when the input is too short.
CallFetch(t, op, srcOp, hows, seq, sliceEnd) ==
    /\ CanStart(t, seq)
    /\ \E p \in CallProcs, u \in Produced(srcOp) :
          \E v \in Variants(kms, res[u].val, hows) :
             LET c == [op |-> op, proc |-> p, data |-> v.data, cap |-> v.cap, now |-> clock,
                       from |-> [op |-> srcOp, p |-> call[u].data, now |-> call[u].now,
                                 proc |-> call[u].proc, how |-> v.how, at |-> v.at]]
             IN IF CanSlice(v.data, v.cap, 0, sliceEnd) /\ (op = "Unhash" => CanSliceFrom(v.data, sliceEnd))
                THEN Begin(t, c, [id |-> Slice(v.data, v.cap, 0, kms.keyLength),
                                  create |-> FALSE, key |-> <<>>])
                ELSE /\ call' = [call EXCEPT ![t] = c]
                     /\ loc' = [loc EXCEPT ![t] = NoLoc]
                     /\ ncalls' = ncalls + 1
                     /\ Finish(t, Panic("slice bounds out of range"))
                     /\ UNCHANGED <<kms, storage, clock, store, keys, nrand, wins>>

CallDecrypt(t, hows, seq) == CallFetch(t, "Decrypt", "Encrypt", hows, seq, kms.keyLength)
CallUnhash(t, hows, seq) == CallFetch(t, "Unhash", "Hash", hows, seq, kms.keyLength + MacSize)

\* key() looking into the cache before it validates the id.
KeyLoadCacheFirst(t) ==
    /\ pc[t] = "key"
    /\ LET id == loc[t].id
           p == call[t].proc
           v == validateKeyId(kms, id, call[t].now)
       IN IF id \in DOMAIN keys[p]
          THEN Complete(t, keys[p][id]) /\ UNCHANGED nrand
          ELSE IF ~loc[t].create /\ v # "nil"
          THEN Finish(t, KeyError(call[t], v)) /\ UNCHANGED <<loc, nrand>>
          ELSE IF loc[t].create
          THEN /\ loc' = [loc EXCEPT ![t].key = generateKey(nrand + 1)]
               /\ nrand' = nrand + 1
               /\ pc' = [pc EXCEPT ![t] = "wim"]
               /\ UNCHANGED <<res, expiredAt>>
          ELSE /\ pc' = [pc EXCEPT ![t] = "read"]
               /\ UNCHANGED <<loc, nrand, res, expiredAt>>
    /\ UNCHANGED <<kms, storage, clock, store, keys, call, ncalls, wins>>

\* key() deleting the stored key of an id it rejects as expired.
KeyLoadPurgingExpired(t) ==
    /\ pc[t] = "key"
    /\ LET id == loc[t].id
           p == call[t].proc
           v == validateKeyId(kms, id, call[t].now)
       IN IF ~loc[t].create /\ v # "nil"
          THEN /\ Finish(t, KeyError(call[t], v)) /\ UNCHANGED <<loc, nrand>>
               /\ store' = IF v = "Expired"
                           THEN [q \in DOMAIN store \ {storagePath(id)} |-> store[q]]
                           ELSE store
          ELSE /\ UNCHANGED store
               /\ IF id \in DOMAIN keys[p]
                  THEN IF loc[t].create /\ v # "nil"
                       THEN Finish(t, KeyError(call[t], v)) /\ UNCHANGED <<loc, nrand>>
                       ELSE Complete(t, keys[p][id]) /\ UNCHANGED nrand
                  ELSE IF loc[t].create
                  THEN /\ loc' = [loc EXCEPT ![t].key = generateKey(nrand + 1)]
                       /\ nrand' = nrand + 1
                       /\ pc' = [pc EXCEPT ![t] = "wim"]
                       /\ UNCHANGED <<res, expiredAt>>
                  ELSE /\ pc' = [pc EXCEPT ![t] = "read"]
                       /\ UNCHANGED <<loc, nrand, res, expiredAt>>
    /\ UNCHANGED <<kms, storage, clock, keys, call, ncalls, wins>>

\* key(): validation, then keys.Load.
KeyLoad(t) ==
    /\ pc[t] = "key"
    /\ LET id == loc[t].id
           p == call[t].proc
           v == validateKeyId(kms, id, call[t].now)
       IN IF ~loc[t].create /\ v # "nil"
          THEN Finish(t, KeyError(call[t], v)) /\ UNCHANGED <<loc, nrand>>
          ELSE IF id \in DOMAIN keys[p]
          THEN IF loc[t].create /\ v # "nil"
               THEN Finish(t, KeyError(call[t], v)) /\ UNCHANGED <<loc, nrand>>
               ELSE Complete(t, keys[p][id]) /\ UNCHANGED nrand
          ELSE IF loc[t].create
          THEN /\ loc' = [loc EXCEPT ![t].key = generateKey(nrand + 1)]
               /\ nrand' = nrand + 1
               /\ pc' = [pc EXCEPT ![t] = "wim"]
               /\ UNCHANGED <<res, expiredAt>>
          ELSE /\ pc' = [pc EXCEPT ![t] = "read"]
               /\ UNCHANGED <<loc, nrand, res, expiredAt>>
    /\ UNCHANGED <<kms, storage, clock, store, keys, call, ncalls, wins>>

Won(id) == Put(wins, id, IF id \in DOMAIN wins THEN wins[id] + 1 ELSE 1)

\* Fs.WriteIfMissing opening the file without O_EXCL: an existing file is
\* taken over.
FsOpenNoExcl(t) ==
    /\ pc[t] = "wim" /\ storage = "Fs"
    /\ pc' = [pc EXCEPT ![t] = "wat"]
    /\ store' = Put(store, storagePath(loc[t].id), <<>>)
    /\ UNCHANGED <<kms, storage, clock, keys, call, loc, res, ncalls, nrand, wins, expiredAt>>

\* Fs.WriteIfMissing up to os.OpenFile(O_CREATE|O_EXCL): the file exists, empty.
FsOpenExcl(t) ==
    /\ pc[t] = "wim" /\ storage = "Fs"
    /\ LET path == storagePath(loc[t].id)
       IN IF path \in DOMAIN store
          THEN pc' = [pc EXCEPT ![t] = "rex"] /\ UNCHANGED store
          ELSE pc' = [pc EXCEPT ![t] = "wat"] /\ store' = Put(store, path, <<>>)
    /\ UNCHANGED <<kms, storage, clock, keys, call, loc, res, ncalls, nrand, wins, expiredAt>>

\* Fs.WriteIfMissing from f.WriteAt(data, 0) to return true.
FsWriteAt(t) ==
    /\ pc[t] = "wat"
    /\ store' = Put(store, storagePath(loc[t].id), loc[t].key)
    /\ wins' = Won(loc[t].id)
    /\ pc' = [pc EXCEPT ![t] = "cache"]
    /\ UNCHANGED <<kms, storage, clock, keys, call, loc, res, ncalls, nrand, expiredAt>>

\* Gcs.WriteIfMissing: one conditional (DoesNotExist) object write.
GcsWriteIfMissing(t) ==
    /\ pc[t] = "wim" /\ storage = "Gcs"
    /\ LET path == storagePath(loc[t].id)
       IN IF path \in DOMAIN store
          THEN pc' = [pc EXCEPT ![t] = "rex"] /\ UNCHANGED <<store, wins>>
          ELSE /\ pc' = [pc EXCEPT ![t] = "cache"]
               /\ store' = Put(store, path, loc[t].key)
               /\ wins' = Won(loc[t].id)
    /\ UNCHANGED <<kms, storage, clock, keys, call, loc, res, ncalls, nrand, expiredAt>>

\* writeOrReadExisting trying the write again when the blob it read is empty.
ReadExistingRetrying(t) ==
    /\ pc[t] = "rex"
    /\ LET path == storagePath(loc[t].id)
       IN IF path \in DOMAIN store
          THEN /\ loc' = [loc EXCEPT ![t].key = IF store[path] = <<>> THEN @ ELSE store[path]]
               /\ pc' = [pc EXCEPT ![t] = IF store[path] = <<>> THEN "wim" ELSE "cache"]
               /\ UNCHANGED <<res, expiredAt>>
          ELSE Finish(t, Panic("failed to write key, and could not read existing")) /\ UNCHANGED loc
    /\ UNCHANGED <<kms, storage, clock, store, keys, call, ncalls, nrand, wins>>

\* writeOrReadExisting after a refused write: storage.Read, panic when not found.
ReadExisting(t) ==
    /\ pc[t] = "rex"
    /\ LET path == storagePath(loc[t].id)
       IN IF path \in DOMAIN store
          THEN /\ loc' = [loc EXCEPT ![t].key = store[path]]
               /\ pc' = [pc EXCEPT ![t] = "cache"]
               /\ UNCHANGED <<res, expiredAt>>
          ELSE Finish(t, Panic("failed to write key, and could not read existing")) /\ UNCHANGED loc
    /\ UNCHANGED <<kms, storage, clock, store, keys, call, ncalls, nrand, wins>>

\* key() in non-creating mode caching an empty key when the store has none.
ReadCachingMiss(t) ==
    /\ pc[t] = "read"
    /\ LET path == storagePath(loc[t].id)
       IN IF path \in DOMAIN store
          THEN /\ loc' = [loc EXCEPT ![t].key = store[path]]
               /\ pc' = [pc EXCEPT ![t] = "cache"]
               /\ UNCHANGED <<res, expiredAt, keys>>
          ELSE /\ keys' = [keys EXCEPT ![call[t].proc] = Put(@, loc[t].id, <<>>)]
               /\ Finish(t, Err("KeyNotFound")) /\ UNCHANGED loc
    /\ UNCHANGED <<kms, storage, clock, store, call, ncalls, nrand, wins>>

\* key() in non-creating mode on a cache miss: storage.Read.
Read(t) ==
    /\ pc[t] = "read"
    /\ LET path == storagePath(loc[t].id)
       IN IF path \in DOMAIN store
          THEN /\ loc' = [loc EXCEPT ![t].key = store[path]]
               /\ pc' = [pc EXCEPT ![t] = "cache"]
               /\ UNCHANGED <<res, expiredAt>>
          ELSE Finish(t, Err("KeyNotFound")) /\ UNCHANGED loc
    /\ UNCHANGED <<kms, storage, clock, store, keys, call, ncalls, nrand, wins>>

\* k.keys.Store(*id, key), then the rest of the operation.
KeysStore(t) ==
    /\ pc[t] = "cache"
    /\ keys' = [keys EXCEPT ![call[t].proc] = Put(@, loc[t].id, loc[t].key)]
    /\ Complete(t, loc[t].key)
    /\ UNCHANGED <<kms, storage, clock, store, call, ncalls, nrand, wins>>

\* Time passes.
Tick(seq) ==
    /\ seq => Quiet
    /\ \E c \in ClockPoints(kms) : c > clock /\ clock' = c
    /\ UNCHANGED <<kms, storage, store, keys, pc, call, loc, res, ncalls, nrand, wins, expiredAt>>

\* Concurrent calls of any number of processes at one instant, default options.
Init == InitWith({EmptyOpts}, {"Fs", "Gcs"})
Next ==
    \E t \in Tasks :
        \/ CallEncrypt(t, FALSE)
        \/ CallHash(t, FALSE)
        \/ CallDecrypt(t, {"intact"}, FALSE)
        \/ CallUnhash(t, {"intact"}, FALSE)
        \/ KeyLoad(t)
        \/ FsOpenExcl(t)
        \/ FsWriteAt(t)
        \/ GcsWriteIfMissing(t)
        \/ ReadExisting(t)
        \/ Read(t)
        \/ KeysStore(t)
Spec == Init /\ [][Next]_vars

\* Two concurrent calls, on either store, when every call that is under way
\* keeps being run: its goroutine is scheduled and each store call it makes
\* returns.
KeyStep(t) ==
    \/ KeyLoad(t)
    \/ FsOpenExcl(t)
    \/ FsWriteAt(t)
    \/ GcsWriteIfMissing(t)
    \/ ReadExisting(t)
    \/ Read(t)
    \/ KeysStore(t)
InitLive == InitWith({EmptyOpts}, {"Fs", "Gcs"})
NextLive ==
    \E t \in Tasks :
        \/ ncalls < MaxCalls - 1 /\ CallEncrypt(t, FALSE)
        \/ ncalls < MaxCalls - 1 /\ CallHash(t, FALSE)
        \/ ncalls < MaxCalls - 1 /\ CallDecrypt(t, {"intact"}, FALSE)
        \/ ncalls < MaxCalls - 1 /\ CallUnhash(t, {"intact"}, FALSE)
        \/ KeyStep(t)
SpecLive == InitLive /\ [][NextLive]_vars /\ \A t \in Tasks : WF_vars(KeyStep(t))

\* Calls one after another while time passes, under every Opts choice.
InitSeq == InitWith(OptsChoices, {"Fs"})
NextSeq ==
    \/ Tick(TRUE)
    \/ \E t \in Tasks :
        \/ CallEncrypt(t, TRUE)
        \/ CallHash(t, TRUE)
        \/ CallDecrypt(t, {"intact"}, TRUE)
        \/ CallUnhash(t, {"intact"}, TRUE)
        \/ KeyLoad(t)
        \/ FsOpenExcl(t)
        \/ FsWriteAt(t)
        \/ ReadExisting(t)
        \/ Read(t)
        \/ KeysStore(t)
SpecSeq == InitSeq /\ [][NextSeq]_vars

\* One call that produces a payload (or two), then one call on a damaged copy
\* of a produced payload: cut short, or with one bit flipped.
InitTamper == InitWith({EmptyOpts}, {"Fs"})
NextTamper ==
    \E t \in Tasks :
        \/ ncalls < MaxCalls - 1 /\ CallEncrypt(t, TRUE)
        \/ ncalls < MaxCalls - 1 /\ CallHash(t, TRUE)
        \/ ncalls < MaxCalls - 1 /\ CallDecrypt(t, {"cut"}, TRUE)
        \/ ncalls < MaxCalls - 1 /\ CallUnhash(t, {"cut", "flip"}, TRUE)
        \/ KeyLoad(t)
        \/ FsOpenExcl(t)
        \/ FsWriteAt(t)
        \/ ReadExisting(t)
        \/ Read(t)
        \/ KeysStore(t)
SpecTamper == InitTamper /\ [][NextTamper]_vars

----------------------------------------------------------------------------
(* The Storage interface called directly, on one path.  WriteIfMissing runs  *)
(* the steps above (FsOpenExcl, FsWriteAt, GcsWriteIfMissing); Read, Write   *)
(* and Remove are one access to the store each.                              *)

StorePath == <<112>>
Blobs == {<<7>>, <<8, 9>>}

\* A returned value with its boolean: (data, found) of Read, the bool of
\* WriteIfMissing and Remove.
Ret(b, data) == [kind |-> "ok", val |-> data, err |-> IF b THEN "nil" ELSE "false"]

\* The call record of a Storage call, with what the path held when it began.
StoreCall(op, d) ==
    LET path == storagePath(StorePath)
        held == path \in DOMAIN store
    IN [NoCall EXCEPT !.op = op, !.data = d, !.cap = Len(d), !.now = clock,
                      !.from = [NoCall.from EXCEPT !.op = "store",
                                   !.how = IF held THEN "present" ELSE "absent",
                                   !.p = IF held THEN store[path] ELSE <<>>]]

\* One Storage call made and returned in a single access to the store.
StoreStep(t, op, d, r, newStore) ==
    /\ call' = [call EXCEPT ![t] = StoreCall(op, d)]
    /\ loc' = [loc EXCEPT ![t] = [id |-> StorePath, create |-> FALSE, key |-> <<>>]]
    /\ ncalls' = ncalls + 1
    /\ store' = newStore
    /\ Finish(t, r)
    /\ UNCHANGED <<kms, storage, clock, keys, nrand, wins>>

\* storage.WriteIfMissing(path, d) is called.
CallWriteIfMissing(t, seq) ==
    /\ CanStart(t, seq)
    /\ \E d \in Blobs :
          /\ call' = [call EXCEPT ![t] = StoreCall("WriteIfMissing", d)]
          /\ loc' = [loc EXCEPT ![t] = [id |-> StorePath, create |-> TRUE, key |-> d]]
    /\ pc' = [pc EXCEPT ![t] = "wim"]
    /\ ncalls' = ncalls + 1
    /\ UNCHANGED <<kms, storage, clock, store, keys, res, nrand, wins, expiredAt>>

\* WriteIfMissing returns: true after its write, false when the path existed.
WriteIfMissingReturn(t) ==
    /\ pc[t] \in {"cache", "rex"}
    /\ Finish(t, Ret(pc[t] = "cache", <<>>))
    /\ UNCHANGED <<kms, storage, clock, store, keys, call, loc, ncalls, nrand, wins>>

\* Fs.Read / Gcs.Read.
StorageRead(t, seq) ==
    /\ CanStart(t, seq)
    /\ LET path == storagePath(StorePath)
       IN StoreStep(t, "Read", <<>>,
                    IF path \in DOMAIN store THEN Ret(TRUE, store[path]) ELSE Ret(FALSE, <<>>),
                    store)

\* Fs.Write / Gcs.Write, with no other call under way.
StorageWrite(t, seq) ==
    /\ CanStart(t, seq)
    /\ \E d \in Blobs \cup {<<>>} :
          StoreStep(t, "Write", d, Ret(TRUE, <<>>), Put(store, storagePath(StorePath), d))

\* Fs.Remove / Gcs.Remove.
StorageRemove(t, seq) ==
    /\ CanStart(t, seq)
    /\ LET path == storagePath(StorePath)
       IN StoreStep(t, "Remove", <<>>, Ret(path \in DOMAIN store, <<>>),
                    [q \in DOMAIN store \ {path} |-> store[q]])

\* WriteIfMissing and Read called concurrently on the filesystem store.
InitStore == InitWith({EmptyOpts}, {"Fs"})
NextStore ==
    \E t \in Tasks :
        \/ CallWriteIfMissing(t, FALSE)
        \/ StorageRead(t, FALSE)
        \/ FsOpenExcl(t)
        \/ FsWriteAt(t)
        \/ WriteIfMissingReturn(t)
SpecStore == InitStore /\ [][NextStore]_vars

\* Storage calls one after another, on either store.
InitStoreSeq == InitWith({EmptyOpts}, {"Fs", "Gcs"})
NextStoreSeq ==
    \E t \in Tasks :
        \/ CallWriteIfMissing(t, TRUE)
        \/ StorageRead(t, TRUE)
        \/ StorageWrite(t, TRUE)
        \/ StorageRemove(t, TRUE)
        \/ FsOpenExcl(t)
        \/ FsWriteAt(t)
        \/ GcsWriteIfMissing(t)
        \/ WriteIfMissingReturn(t)
SpecStoreSeq == InitStoreSeq /\ [][NextStoreSeq]_vars

----------------------------------------------------------------------------
(* Package b64 and the base64 variants of the four operations. *)

MaxB64Len == 3
PadChar == 61

\* The alphabet of base64.URLEncoding: A-Z, a-z, 0-9, '-', '_'.
B64Char(i) ==
    IF i < 26 THEN 65 + i
    ELSE IF i < 52 THEN 97 + (i - 26)
    ELSE IF i < 62 THEN 48 + (i - 52)
    ELSE IF i = 62 THEN 45 ELSE 95

\* The value of an alphabet character, -1 for any other byte.
B64Value(c) ==
    IF c >= 65 /\ c <= 90 THEN c - 65
    ELSE IF c >= 97 /\ c <= 122 THEN c - 97 + 26
    ELSE IF c >= 48 /\ c <= 57 THEN c - 48 + 52
    ELSE IF c = 45 THEN 62
    ELSE IF c = 95 THEN 63 ELSE -1

EncodedLen(n) == ((n + 2) \div 3) * 4
DecodedLen(n) == (n \div 4) * 3

\* encode(base64.URLEncoding, data): nil for empty data, else every three
\* bytes as four characters, the last group padded with '='.
UrlEncode(data) ==
    LET n == Len(data)
        byte(i) == IF i <= n THEN data[i] ELSE 0
    IN [k \in 1..(IF n = 0 THEN 0 ELSE EncodedLen(n)) |->
          LET g == (k - 1) \div 4
              j == (k - 1) % 4
              v == byte(3 * g + 1) * 65536 + byte(3 * g + 2) * 256 + byte(3 * g + 3)
          IN IF j = 2 /\ 3 * g + 2 > n THEN PadChar
             ELSE IF j = 3 /\ 3 * g + 3 > n THEN PadChar
             ELSE B64Char((v \div (64 ^ (3 - j))) % 64)]

\* decode returning its whole buffer of DecodedLen bytes, not the part decoded.
UrlDecodeUncut(data) ==
    LET n == Len(data)
        val(i) == IF data[i] = PadChar THEN 0 ELSE B64Value(data[i])
        quad(g) == val(4 * g + 1) * 262144 + val(4 * g + 2) * 4096
                   + val(4 * g + 3) * 64 + val(4 * g + 4)
    IN IF n % 4 # 0 \/ \E i \in 1..n : val(i) < 0
       THEN [ok |-> FALSE, val |-> <<>>, cap |-> 0]
       ELSE [ok |-> TRUE, cap |-> DecodedLen(n),
             val |-> [i \in 1..DecodedLen(n) |->
                        (quad((i - 1) \div 3) \div (256 ^ (2 - ((i - 1) % 3)))) % 256]]

\* decode(base64.URLEncoding, data): the bytes, in a buffer of DecodedLen
\* bytes cut to the number decoded, or the decoder's error.  (The inputs of
\* the model hold no CR or LF, which the decoder would skip.)
UrlDecode(data) ==
    LET n == Len(data)
        groups == n \div 4
        val(i) == B64Value(data[i])
        pads == IF n = 0 THEN 0
                ELSE IF data[n] # PadChar THEN 0
                ELSE IF data[n - 1] # PadChar THEN 1 ELSE 2
        legal == /\ n % 4 = 0
                 /\ \A i \in 1..(n - pads) : val(i) >= 0
        count == groups * 3 - pads
        quad(g) == val(4 * g + 1) * 262144 + val(4 * g + 2) * 4096
                   + (IF 4 * g + 3 <= n - pads THEN val(4 * g + 3) * 64 ELSE 0)
                   + (IF 4 * g + 4 <= n - pads THEN val(4 * g + 4) ELSE 0)
    IN IF n = 0 THEN [ok |-> TRUE, val |-> <<>>, cap |-> 0]
       ELSE IF ~legal THEN [ok |-> FALSE, val |-> <<>>, cap |-> 0]
       ELSE [ok |-> TRUE, cap |-> DecodedLen(n),
             val |-> [i \in 1..count |->
                        (quad((i - 1) \div 3) \div (256 ^ (2 - ((i - 1) % 3)))) % 256]]

B64Bytes == {0, 251, 255}
B64Inputs == UNION {[1..n -> B64Bytes] : n \in 0..MaxB64Len}

\* A call that touches neither the cache nor the store.
PureStep(t, c, r) ==
    /\ call' = [call EXCEPT ![t] = c]
    /\ loc' = [loc EXCEPT ![t] = NoLoc]
    /\ ncalls' = ncalls + 1
    /\ Finish(t, r)
    /\ UNCHANGED <<kms, storage, clock, store, keys, nrand, wins>>

\* b64.UrlEncode(d).
CallUrlEncode(t, seq) ==
    /\ CanStart(t, seq)
    /\ \E d \in B64Inputs :
          PureStep(t, [NoCall EXCEPT !.op = "UrlEncode", !.data = d, !.cap = Len(d), !.now = clock],
                   Ok(UrlEncode(d)))

\* b64.UrlDecode on an output of UrlEncode.
CallUrlDecode(t, seq) ==
    /\ CanStart(t, seq)
    /\ \E u \in Produced("UrlEncode") :
          LET dec == UrlDecode(res[u].val)
          IN PureStep(t, [NoCall EXCEPT !.op = "UrlDecode", !.data = res[u].val,
                                        !.cap = Len(res[u].val), !.now = clock,
                                        !.from = [NoCall.from EXCEPT !.op = "UrlEncode",
                                                     !.p = call[u].data, !.how = "intact"]],
                      IF dec.ok THEN Ok(dec.val) ELSE Err("CorruptInput"))

\* DecryptB64 / UnhashB64 on the output of B64Encrypt / B64Hash, which is
\* UrlEncode of the output of Encrypt / Hash: UrlDecode, then Decrypt / Unhash.
CallFetchB64(t, op, srcOp, seq, sliceEnd) ==
    /\ CanStart(t, seq)
    /\ \E p \in CallProcs, u \in Produced(srcOp) :
          LET dec == UrlDecode(UrlEncode(res[u].val))
              c == [op |-> op, proc |-> p, data |-> dec.val, cap |-> dec.cap, now |-> clock,
                    from |-> [op |-> srcOp, p |-> call[u].data, now |-> call[u].now,
                              proc |-> call[u].proc, how |-> "b64", at |-> 0]]
          IN IF ~dec.ok THEN PureStep(t, c, Err("CorruptInput"))
             ELSE IF CanSlice(dec.val, dec.cap, 0, sliceEnd)
                     /\ (op = "Unhash" => CanSliceFrom(dec.val, sliceEnd))
             THEN Begin(t, c, [id |-> Slice(dec.val, dec.cap, 0, kms.keyLength),
                               create |-> FALSE, key |-> <<>>])
             ELSE PureStep(t, c, Panic("slice bounds out of range"))

CallDecryptB64(t, seq) == CallFetchB64(t, "Decrypt", "Encrypt", seq, kms.keyLength)
CallUnhashB64(t, seq) == CallFetchB64(t, "Unhash", "Hash", seq, kms.keyLength + MacSize)

\* The base64 calls one after another at one instant, default options.
InitB64 == InitWith({EmptyOpts}, {"Fs"})
NextB64 ==
    \E t \in Tasks :
        \/ CallUrlEncode(t, TRUE)
        \/ CallUrlDecode(t, TRUE)
        \/ CallEncrypt(t, TRUE)
        \/ CallHash(t, TRUE)
        \/ CallDecryptB64(t, TRUE)
        \/ CallUnhashB64(t, TRUE)
        \/ KeyLoad(t)
        \/ FsOpenExcl(t)
        \/ FsWriteAt(t)
        \/ ReadExisting(t)
        \/ Read(t)
        \/ KeysStore(t)
SpecB64 == InitB64 /\ [][NextB64]_vars

\* One call that produces a payload, then, while time passes, one Decrypt or
\* Unhash on it, intact or with one bit flipped, default options: key ids of
\* every kind meet validateKeyId at every clock.
InitValidate == InitWith({EmptyOpts}, {"Fs"})
NextValidate ==
    \/ Tick(TRUE)
    \/ \E t \in Tasks :
        \/ ncalls < MaxCalls - 1 /\ CallEncrypt(t, TRUE)
        \/ ncalls < MaxCalls - 1 /\ CallHash(t, TRUE)
        \/ ncalls < MaxCalls - 1 /\ CallDecrypt(t, {"intact"}, TRUE)
        \/ ncalls < MaxCalls - 1 /\ CallUnhash(t, {"intact", "flip"}, TRUE)
        \/ KeyLoad(t)
        \/ FsOpenExcl(t)
        \/ FsWriteAt(t)
        \/ ReadExisting(t)
        \/ Read(t)
        \/ KeysStore(t)
SpecValidate == InitValidate /\ [][NextValidate]_vars

----------------------------------------------------------------------------
(* Claims. *)

IsDone(t) == pc[t] = "done"
IsCreate(t) == call[t].op \in {"Encrypt", "Hash"}
IsFetch(t) == call[t].op \in {"Decrypt", "Unhash"}
Default == kms = NewKms(EmptyOpts)
KeyIdOf(out) == SubSeq(out, 1, kms.keyLength)
\* Task t holds the result of Decrypt / Unhash on an undamaged output of srcOp.
Intact(t, op, srcOp) ==
    IsDone(t) /\ call[t].op = op /\ call[t].from.op = srcOp /\ call[t].from.how = "intact"

\* C1: when several processes with empty caches concurrently fetch the same key
\* id in creating mode against one shared store, then once their calls have
\* ended exactly one of the WriteIfMissing calls has returned true, and all of
\* the processes cache and have returned the same key bytes.
C1_ConvergenceUnderRace ==
    Quiet =>
       \A t, u \in Tasks :
          /\ IsDone(t) /\ IsCreate(t) /\ res[t].kind = "ok"
          /\ IsDone(u) /\ IsCreate(u) /\ res[u].kind = "ok"
          /\ call[t].proc # call[u].proc /\ loc[t].id = loc[u].id
          => /\ loc[t].id \in DOMAIN wins /\ wins[loc[t].id] = 1
             /\ loc[t].key = loc[u].key
             /\ keys[call[t].proc][loc[t].id] = keys[call[u].proc][loc[u].id]

\* The calls made at one instant, one after another, on an undamaged output.
RoundTrip(t, op, srcOp) ==
    Intact(t, op, srcOp) /\ Default /\ call[t].now = call[t].from.now

\* C2: with default options, Decrypt called at now on the output of
\* Encrypt(p) called at now returns p and no error, for every p (the empty one
\* included) and every now, whether the Encrypt call created the key of the
\* window or found it.
C2_EncryptDecryptRoundTrip ==
    \A t \in Tasks : RoundTrip(t, "Decrypt", "Encrypt") => res[t] = Ok(call[t].from.p)

\* Decrypt has returned a non-empty p, and the Encrypt call that produced its
\* input ran in a second process, which found the key the first had created.
C2_Witness ==
    \E t, u \in Tasks :
       /\ RoundTrip(t, "Decrypt", "Encrypt") /\ res[t] = Ok(<<65>>)
       /\ call[t].from.proc = 2 /\ loc[t].id \in DOMAIN keys[1]
       /\ IsDone(u) /\ call[u].op = "Encrypt" /\ call[u].proc = 2 /\ res[u].val = call[t].data

\* C3: with default options, Unhash called at now on the output of Hash(p)
\* called at now returns p unchanged and no error, for every p and every now.
C3_HashUnhashRoundTrip ==
    \A t \in Tasks : RoundTrip(t, "Unhash", "Hash") => res[t] = Ok(call[t].from.p)

\* Unhash has returned a non-empty p in the last second of a rotation window.
C3_Witness ==
    \E t \in Tasks :
       /\ RoundTrip(t, "Unhash", "Hash") /\ res[t] = Ok(<<65>>)
       /\ call[t].now = WindowStart(kms, 0) + kms.rotationFreq - 1

\* The embedded key id of task t's input parses, to a time more than maxAge
\* before the call's clock.
PastMaxAge(t) ==
    /\ Parse(loc[t].id).ok
    /\ Before(Add(Parse(loc[t].id), kms.maxAge), Instant(call[t].now))

\* C4: Decrypt and Unhash called at now on an input whose key id parses to a
\* time t with t + maxAge < now fail with Expired, whatever the store and the
\* cache of the process hold for the id.
C4_Expiry ==
    \A t \in Tasks : IsDone(t) /\ IsFetch(t) /\ PastMaxAge(t) => res[t] = Err("Expired")

\* Decrypt has failed with Expired on an id whose key is in the store and in
\* the cache of the calling process.
C4_Witness ==
    \E t \in Tasks :
       /\ IsDone(t) /\ call[t].op = "Decrypt" /\ PastMaxAge(t) /\ res[t] = Err("Expired")
       /\ storagePath(loc[t].id) \in DOMAIN store
       /\ loc[t].id \in DOMAIN keys[call[t].proc]

\* C5: once a key id has been rejected as expired at now, every Decrypt or
\* Unhash call for that id at a clock now' >= now, in any process, is rejected
\* as expired too.
C5_NoReturnFromExpired ==
    \A t \in Tasks :
       /\ IsDone(t) /\ IsFetch(t)
       /\ loc[t].id \in DOMAIN expiredAt /\ call[t].now >= expiredAt[loc[t].id]
       => res[t] = Err("Expired")

\* An id rejected as expired in one process is rejected again, later, in the
\* process that holds its key in the cache.
C5_Witness ==
    \E t, u \in Tasks :
       /\ IsDone(t) /\ IsFetch(t) /\ IsDone(u) /\ IsFetch(u)
       /\ loc[t].id = loc[u].id /\ loc[t].id \in DOMAIN expiredAt
       /\ call[t].now = expiredAt[loc[t].id] /\ call[u].now > call[t].now
       /\ call[t].proc # call[u].proc
       /\ loc[u].id \in DOMAIN keys[call[u].proc]
       /\ res[t] = Err("Expired") /\ res[u] = Err("Expired")

\* Two Encrypt calls one rotation period apart carry different key ids.
RotatedIdsDiffer ==
    \A t, u \in Tasks :
       /\ IsDone(t) /\ call[t].op = "Encrypt" /\ res[t].kind = "ok"
       /\ IsDone(u) /\ call[u].op = "Encrypt" /\ res[u].kind = "ok"
       /\ call[u].now = call[t].now + kms.rotationFreq
       => KeyIdOf(res[t].val) # KeyIdOf(res[u].val)

\* A payload encrypted at t decrypts to the plaintext at t + rotationPeriod.
DecryptsAfterRotation ==
    \A t \in Tasks :
       Intact(t, "Decrypt", "Encrypt") /\ call[t].now = call[t].from.now + kms.rotationFreq
       => res[t] = Ok(call[t].from.p)

IntactFetch(t) == IsDone(t) /\ IsFetch(t) /\ call[t].from.how = "intact"

\* C9 as stated: a key id whose window starts at T is accepted by Decrypt and
\* Unhash at every clock in [T, T + rotationPeriod + maxAge].
C9_LifetimeAsStated ==
    \A t \in Tasks :
       LET T == Truncate(call[t].from.now, kms.rotationFreq)
       IN IntactFetch(t) /\ T <= call[t].now
            /\ call[t].now <= T + kms.rotationFreq + kms.maxAge
          => res[t].kind = "ok"

\* C9: a key id that parses to the time T is accepted by Decrypt and Unhash at
\* every clock in [T, T + maxAge], and rejected as Expired at every later one.
C9_Lifetime ==
    \A t \in Tasks :
       IntactFetch(t) =>
          LET T == ParseTime(loc[t].id)
          IN /\ T <= call[t].now /\ call[t].now <= T + kms.maxAge
                => res[t] = Ok(call[t].from.p)
             /\ call[t].now > T + kms.maxAge => res[t] = Err("Expired")

\* An id has been accepted in the last second of its lifetime.
C9_Witness ==
    \E t \in Tasks :
       /\ IntactFetch(t) /\ res[t].kind = "ok"
       /\ call[t].now = ParseTime(loc[t].id) + kms.maxAge

\* C10: two Encrypt or Hash calls whose clocks truncate to the same multiple
\* of rotationPeriod produce outputs with the same leading keyLength bytes, in
\* whatever order and in whichever process they run.
C10_StableWithinWindow ==
    \A t, u \in Tasks :
       /\ IsDone(t) /\ IsCreate(t) /\ res[t].kind = "ok"
       /\ IsDone(u) /\ IsCreate(u) /\ res[u].kind = "ok"
       /\ Truncate(call[t].now, kms.rotationFreq) = Truncate(call[u].now, kms.rotationFreq)
       => KeyIdOf(res[t].val) = KeyIdOf(res[u].val)

\* An Encrypt call and a Hash call of two processes, at the two ends of one
\* window, have produced the same key id.
C10_Witness ==
    \E t, u \in Tasks :
       /\ IsDone(t) /\ call[t].op = "Encrypt" /\ res[t].kind = "ok"
       /\ IsDone(u) /\ call[u].op = "Hash" /\ res[u].kind = "ok"
       /\ call[t].proc # call[u].proc
       /\ call[t].now = WindowStart(kms, 0)
       /\ call[u].now = WindowStart(kms, 0) + kms.rotationFreq - 1
       /\ KeyIdOf(res[t].val) = KeyIdOf(res[u].val)

\* Task t holds the result of a call on an input cut down to fewer bytes than
\* the operation needs: keyLength + nonceSize for Decrypt, keyLength + 64 for
\* Unhash.
ShortInput(t) ==
    /\ IsDone(t) /\ IsFetch(t) /\ call[t].from.how = "cut"
    /\ \/ call[t].op = "Decrypt" /\ Len(call[t].data) < kms.keyLength + NonceSize
       \/ call[t].op = "Unhash" /\ Len(call[t].data) < kms.keyLength + MacSize

\* C6: Decrypt on an input shorter than keyLength + nonceSize and Unhash on an
\* input shorter than keyLength + 64 return an error; they do not panic.
C6_ShortInputRejected ==
    \A t \in Tasks : ShortInput(t) => res[t].kind = "err"

\* Task t holds the result of Unhash on an output of Hash with one bit flipped.
Flipped(t) == IsDone(t) /\ call[t].op = "Unhash" /\ call[t].from.how = "flip"

StoreDone(t, op) == IsDone(t) /\ call[t].from.op = "store" /\ call[t].op = op

\* C11: on the filesystem store, in every interleaving of WriteIfMissing with
\* Read and with other WriteIfMissing calls, a Read that returns found = true
\* returns the complete bytes of a WriteIfMissing call, never an empty or
\* partial blob.
C11_AtomicCreate ==
    \A t \in Tasks :
       StoreDone(t, "Read") /\ res[t].err = "nil" => res[t].val \in Blobs

\* The tasks of the latest call and of the one before it, when calls are made
\* one after another.
LastTask == ((ncalls - 1) % NumTasks) + 1
PrevTask == ((ncalls - 2) % NumTasks) + 1

\* C12: over any sequence of Write, WriteIfMissing, Read and Remove on one
\* path, WriteIfMissing returns false and leaves the stored bytes unchanged
\* when the path holds an object, and returns true and persists its bytes when
\* the path is absent; Read returns the persisted bytes with found = true (and
\* found = false when the path is absent); Remove returns true exactly when an
\* object existed, and removes it.
C12_CreateOnly ==
    Quiet /\ ncalls > 0 =>
       LET t == LastTask
           path == storagePath(StorePath)
           held == call[t].from.how = "present"
       IN /\ StoreDone(t, "WriteIfMissing") =>
                /\ res[t] = Ret(~held, <<>>)
                /\ path \in DOMAIN store
                /\ store[path] = IF held THEN call[t].from.p ELSE call[t].data
          /\ StoreDone(t, "Read") =>
                /\ res[t] = Ret(held, call[t].from.p)
                /\ ncalls > 1 /\ StoreDone(PrevTask, "WriteIfMissing") /\ res[PrevTask].err = "nil"
                   => res[t] = Ret(TRUE, call[PrevTask].data)
          /\ StoreDone(t, "Remove") => res[t] = Ret(held, <<>>) /\ path \notin DOMAIN store
          /\ StoreDone(t, "Write") => path \in DOMAIN store /\ store[path] = call[t].data

\* On the filesystem store WriteIfMissing has returned true and persisted its
\* bytes on a path whose earlier object had been removed by the call before.
C12_Witness ==
    /\ Quiet /\ ncalls > 1 /\ storage = "Fs"
    /\ StoreDone(LastTask, "WriteIfMissing") /\ res[LastTask] = Ret(TRUE, <<>>)
    /\ store[storagePath(StorePath)] = call[LastTask].data
    /\ StoreDone(PrevTask, "Remove") /\ res[PrevTask] = Ret(TRUE, <<>>)

\* C13: every value that key() returns or inserts into the cache, whether
\* generated, adopted from the store after a lost create race or read from the
\* store in non-creating mode, is exactly 96 bytes long.
C13_KeyIsComplete ==
    /\ \A p \in Procs : \A id \in DOMAIN keys[p] : Len(keys[p][id]) = KeySize
    /\ \A t \in Tasks :
          IsDone(t) /\ (IsCreate(t) \/ IsFetch(t)) /\ res[t].kind = "ok"
          => Len(loc[t].key) = KeySize

\* C14: every Kms that NewKms returns, for any Opts, has maxAge strictly
\* greater than rotationFreq.
C14_MaxAgeExceedsRotation == kms.maxAge > kms.rotationFreq

\* C15: no failure of Encrypt or Hash escapes the call as a panic; each
\* surfaces as a returned error.
C15_NoPanic ==
    \A t \in Tasks : IsDone(t) /\ IsCreate(t) => res[t].kind # "panic"

\* Task t, inside a creating key() call, has issued WriteIfMissing.
Creating(t) == loc[t].create /\ IsCreate(t) /\ pc[t] \in {"wat", "rex", "cache"}

\* C16: in every interleaving of concurrent creating key() calls for one id on
\* one Kms instance, the instance issues at most one WriteIfMissing for the id.
C16_OneCreateAttempt ==
    \A t, u \in Tasks :
       Creating(t) /\ Creating(u) /\ call[t].proc = call[u].proc /\ loc[t].id = loc[u].id
       => t = u

\* C17: UrlDecode(UrlEncode(d)) equals d with no error for every byte string
\* d, and at one clock value DecryptB64(B64Encrypt(p)) equals p and
\* UnhashB64(B64Hash(p)) equals p for every payload p.
C17_Base64RoundTrip ==
    \A t \in Tasks :
       /\ IsDone(t) /\ call[t].op = "UrlDecode" => res[t] = Ok(call[t].from.p)
       /\ IsDone(t) /\ IsFetch(t) /\ call[t].from.how = "b64" /\ call[t].now = call[t].from.now
          => res[t] = Ok(call[t].from.p)

\* DecryptB64 has returned the payload from an input that UrlDecode cut out of
\* a longer buffer (the encoding ended in padding).
C17_Witness ==
    \E t \in Tasks :
       /\ IsDone(t) /\ call[t].op = "Decrypt" /\ call[t].from.how = "b64"
       /\ call[t].now = call[t].from.now /\ res[t] = Ok(call[t].from.p)
       /\ Len(call[t].data) < call[t].cap

\* Instant a is not later than instant b.
NotLater(a, b) == a.days < b.days \/ (a.days = b.days /\ a.secs <= b.secs)

\* The errors of validateKeyId.
ValidationErrors == {"MalformedId", "FutureId", "Expired"}

\* C18: validateKeyId(id, now) reports MalformedId when id does not parse;
\* otherwise FutureId when the parsed time t is after now; otherwise Expired
\* when t + maxAge is before now; otherwise it succeeds.  It succeeds exactly
\* when id parses and t <= now <= t + maxAge.
C18_ValidateOrder ==
    \A t \in Tasks :
       IsDone(t) /\ IsFetch(t) =>
          LET r == Parse(loc[t].id)
              n == Instant(call[t].now)
              e == res[t].err
          IN /\ ~r.ok => e = "MalformedId"
             /\ r.ok /\ ~NotLater(r, n) => e = "FutureId"
             /\ r.ok /\ NotLater(r, n) /\ ~NotLater(n, Add(r, kms.maxAge)) => e = "Expired"
             /\ e \notin ValidationErrors
                <=> r.ok /\ NotLater(r, n) /\ NotLater(n, Add(r, kms.maxAge))

\* A bit flip has turned the key id into a valid earlier one, which passes
\* validation at a clock later than the instant the payload was signed at.
C18_Witness ==
    \E t \in Tasks :
       /\ IsDone(t) /\ call[t].op = "Unhash" /\ call[t].from.how = "flip"
       /\ call[t].from.at <= kms.keyLength /\ call[t].now > call[t].from.now
       /\ Parse(loc[t].id).ok /\ res[t] = Err("KeyNotFound")

\* The step is one of task t inside a non-creating key() call (the call being
\* made, the validation and cache lookup, the store read) other than the
\* caching of a key that was read.
FetchStep(t) ==
    /\ pc'[t] # pc[t] \/ call'[t] # call[t]
    /\ call'[t].op \in {"Decrypt", "Unhash"}
    /\ pc[t] # "cache"

\* The step ends task t's non-creating key() call with a validation error.
FailsValidation(t) ==
    FetchStep(t) /\ pc'[t] = "done" /\ res'[t].kind = "err" /\ res'[t].err \in ValidationErrors

\* C19: a failed non-creating fetch changes nothing.  A validation failure is
\* returned before any cache lookup or store operation; an id that is valid
\* but absent from both the cache and the store fails with KeyNotFound; no
\* step of such a call changes the cache or the store.
C19_FailedFetchChangesNothing ==
    /\ [](\A t \in Tasks :
             /\ IsDone(t) /\ IsFetch(t) /\ Parse(loc[t].id).ok
             /\ validateKeyId(kms, loc[t].id, call[t].now) = "nil"
             /\ loc[t].id \notin DOMAIN keys[call[t].proc]
             /\ storagePath(loc[t].id) \notin DOMAIN store
             => res[t] = Err("KeyNotFound"))
    /\ [][\A t \in Tasks :
             /\ FetchStep(t) => keys' = keys /\ store' = store
             /\ FailsValidation(t) => pc[t] = "key"]_vars

\* Unhash has failed with KeyNotFound in a process whose cache holds another
\* key, which the store holds too.
C19_Witness ==
    \E t \in Tasks :
       /\ IsDone(t) /\ call[t].op = "Unhash" /\ res[t] = Err("KeyNotFound")
       /\ loc[t].id \notin DOMAIN keys[call[t].proc] /\ keys[call[t].proc] # <<>>
       /\ storagePath(loc[t].id) \notin DOMAIN store /\ store # <<>>

\* C20: a creating key() call at now with an id that validateKeyId rejects at
\* now never yields key material, whether or not the id is in the cache, and
\* persists nothing: Encrypt and Hash do not succeed with such an id.
C20_ValidationGuardsCreate ==
    \A t \in Tasks :
       IsDone(t) /\ IsCreate(t) /\ validateKeyId(kms, loc[t].id, call[t].now) # "nil"
       => res[t].kind # "ok"

\* C21: with no blob deleted from the store, every entry (id, m) of every
\* process's cache is the bytes stored at keysFolder/id, and a finished key()
\* call of a process has returned what the store holds: material whose
\* create-only write was refused is neither cached nor returned.
C21_CacheIsStoreAccepted ==
    /\ \A p \in Procs : \A id \in DOMAIN keys[p] :
          storagePath(id) \in DOMAIN store /\ keys[p][id] = store[storagePath(id)]
    /\ \A t \in Tasks :
          IsDone(t) /\ (IsCreate(t) \/ IsFetch(t)) /\ res[t].kind = "ok"
          => storagePath(loc[t].id) \in DOMAIN store
             /\ loc[t].key = store[storagePath(loc[t].id)]

\* C22: the key cache is append-only and written at most once per identifier
\* per process: no step removes or changes a cache entry, and keys.Store is
\* never executed for an id the cache of the process already holds.
C22_CacheWrittenOnce ==
    [][/\ \A p \in Procs : \A id \in DOMAIN keys[p] :
             id \in DOMAIN keys'[p] /\ keys'[p][id] = keys[p][id]
       /\ \A t \in Tasks :
             pc[t] = "cache" /\ pc'[t] # "cache"
             => loc[t].id \notin DOMAIN keys[call[t].proc]]_vars

\* The step is the cache lookup of task t's key() call, and it finds the id.
CacheHit(t) ==
    pc[t] = "key" /\ pc'[t] # "key" /\ loc[t].id \in DOMAIN keys[call[t].proc]

\* C23: a successful key() call leaves the material it returned in the cache
\* under its id, where every later key() call of the process finds it: the
\* entry stays the material that was returned, and a call that finds the id in
\* the cache goes to no store operation (no Read, no WriteIfMissing) and, when
\* it succeeds, returns the cached material.
C23_CacheRemovesRoundTrip ==
    /\ [](\A t \in Tasks :
             IsDone(t) /\ (IsCreate(t) \/ IsFetch(t)) /\ res[t].kind = "ok"
             => /\ loc[t].id \in DOMAIN keys[call[t].proc]
                /\ keys[call[t].proc][loc[t].id] = loc[t].key)
    /\ [][\A t \in Tasks :
             CacheHit(t) => /\ pc'[t] = "done" /\ store' = store
                            /\ res'[t].kind = "ok"
                               => loc'[t].key = keys[call[t].proc][loc[t].id]]_vars

\* The step changes the store as the WriteIfMissing of task t, an Encrypt or
\* Hash call, does: the blob at keysFolder/currentKeyId(now), now the clock of
\* the call, comes to exist, and no other blob changes or goes away.  (On the
\* filesystem store the call first creates the blob empty, then fills it.)
CreatesCurrentKey(t) ==
    LET path == storagePath(currentKeyId(kms, call[t].now))
    IN /\ IsCreate(t) /\ pc[t] \in {"wim", "wat"} /\ pc'[t] # pc[t]
       /\ DOMAIN store' = DOMAIN store \cup {path}
       /\ \A q \in DOMAIN store \ {path} : store'[q] = store[q]
       /\ path \in DOMAIN store => pc[t] = "wat" /\ store[path] = <<>>

\* C24: across any sequence of Encrypt, Hash, Decrypt and Unhash calls, the
\* store changes only by the WriteIfMissing at keysFolder/currentKeyId(now) of
\* an Encrypt or Hash call at clock now; Decrypt and Unhash never write, and no
\* stored key is overwritten or deleted.
C24_LazyCreateOnly ==
    [][store' # store => \E t \in Tasks : CreatesCurrentKey(t)]_vars

\* The keys of two windows are stored, each created by the Hash call of its
\* window, and an Unhash call made after them has left the store as it was.
C24_Witness ==
    \E t, u \in Tasks :
       /\ Quiet /\ ncalls = MaxCalls /\ u = LastTask /\ t = PrevTask
       /\ call[t].op = "Hash" /\ res[t].kind = "ok" /\ call[u].op = "Unhash"
       /\ Cardinality(DOMAIN store) = 2 /\ DOMAIN wins = {x.name : x \in DOMAIN store}
       /\ store[storagePath(currentKeyId(kms, call[t].now))] = loc[t].key

\* The moves of a call through key(): from the cache lookup ("key") to one
\* WriteIfMissing ("wim", on the filesystem store continued in "wat") or one
\* Read ("read"), from a refused WriteIfMissing to one Read ("rex"), then to
\* the cache and the end; no move leads back.
KeyMoves ==
    {<<"idle", "key">>, <<"done", "key">>,
     <<"key", "done">>, <<"key", "wim">>, <<"key", "read">>,
     <<"wim", "wat">>, <<"wim", "rex">>, <<"wim", "cache">>, <<"wat", "cache">>,
     <<"rex", "cache">>, <<"rex", "done">>, <<"read", "cache">>, <<"read", "done">>,
     <<"cache", "done">>}

\* C25: no internal retry and no indefinite blocking.  A key() call moves
\* forward only, so that on every path it performs at most one WriteIfMissing
\* and at most one Read, and every Encrypt, Decrypt, Hash and Unhash call that
\* has begun eventually completes with a result.
C25_NoRetryNoBlocking ==
    /\ [][\A t \in Tasks : pc'[t] # pc[t] => <<pc[t], pc'[t]>> \in KeyMoves]_vars
    /\ \A t \in Tasks : (pc[t] \notin {"idle", "done"}) ~> (pc[t] = "done" /\ res[t].kind # "none")

\* On the Gcs store two processes have completed a creating call for one id:
\* one of them was refused by WriteIfMissing, read the key and returned it.
C25_Witness ==
    \E t, u \in Tasks :
       /\ storage = "Gcs" /\ t # u /\ call[t].proc # call[u].proc
       /\ IsDone(t) /\ IsCreate(t) /\ res[t].kind = "ok"
       /\ IsDone(u) /\ IsCreate(u) /\ res[u].kind = "ok"
       /\ loc[t].id = loc[u].id /\ loc[t].key = loc[u].key /\ wins[loc[t].id] = 1

LexLeq(a, b) ==
    LET differ == {i \in 1..Min(Len(a), Len(b)) : a[i] # b[i]}
    IN IF differ = {}
       THEN Len(a) <= Len(b)
       ELSE \E i \in differ : a[i] < b[i] /\ \A j \in differ : i <= j

C28_CrossProcessRoundTrip ==
    \A t \in Tasks :
       /\ IntactFetch(t) /\ call[t].from.proc # call[t].proc
       /\ call[t].now = call[t].from.now
       => res[t] = Ok(call[t].from.p)

\* C29: for every Kms that NewKms can return and every clock value now,
\* validateKeyId(currentKeyId(now), now) succeeds, so that of two Encrypt or
\* Hash calls of one process in one window the second (a cache hit) does not
\* fail where the first (a cache miss) succeeded.
C29_CurrentIdValid ==
    /\ validateKeyId(kms, currentKeyId(kms, clock), clock) = "nil"
    /\ \A t, u \in Tasks :
          /\ IsDone(t) /\ IsCreate(t) /\ IsDone(u) /\ IsCreate(u)
          /\ call[t].proc = call[u].proc /\ loc[t].id = loc[u].id
          /\ res[t].kind = "ok"
          => res[u].kind = "ok"

\* C30 as stated: with maxAge >= rotationFreq, a payload produced by Encrypt
\* or Hash at clock t is accepted by Decrypt or Unhash at every clock t' with
\* t <= t' <= t + (maxAge - rotationFreq), and rejected as Expired at every
\* clock t' > truncate(t, rotationFreq) + maxAge.
C30_WindowAsStated ==
    \A t \in Tasks :
       IntactFetch(t) /\ kms.maxAge >= kms.rotationFreq =>
          /\ call[t].from.now <= call[t].now
             /\ call[t].now <= call[t].from.now + (kms.maxAge - kms.rotationFreq)
             => res[t] = Ok(call[t].from.p)
          /\ call[t].now > Truncate(call[t].from.now, kms.rotationFreq) + kms.maxAge
             => res[t] = Err("Expired")

\* C30: with maxAge >= rotationFreq, a payload produced by Encrypt or Hash at
\* clock t is rejected as Expired by Decrypt or Unhash at every clock
\* t' > truncate(t, rotationFreq) + maxAge, and, when rotationFreq is a whole
\* number of minutes, accepted at every clock t' with
\* t <= t' <= t + (maxAge - rotationFreq).
C30_AcceptanceWindow ==
    \A t \in Tasks :
       IntactFetch(t) /\ kms.maxAge >= kms.rotationFreq =>
          /\ kms.rotationFreq % Minute = 0
             /\ call[t].from.now <= call[t].now
             /\ call[t].now <= call[t].from.now + (kms.maxAge - kms.rotationFreq)
             => res[t] = Ok(call[t].from.p)
          /\ call[t].now > Truncate(call[t].from.now, kms.rotationFreq) + kms.maxAge
             => res[t] = Err("Expired")

\* A payload made in the last second of a window has been accepted exactly
\* maxAge - rotationFreq later, by a process other than the one that made it.
C30_Witness ==
    \E t \in Tasks :
       /\ IntactFetch(t) /\ res[t] = Ok(call[t].from.p)
       /\ kms.maxAge > kms.rotationFreq /\ kms.rotationFreq % Minute = 0
       /\ call[t].from.now = WindowStart(kms, 0) + kms.rotationFreq - 1
       /\ call[t].now = call[t].from.now + (kms.maxAge - kms.rotationFreq)
       /\ call[t].proc # call[t].from.proc

====
